---- MODULE Spec2Model ----
(***************************************************************************)
(* Model of the housing-viability simulation (src/app.py): the month by    *)
(* month amortization loop (equity -> KfW loan -> main loan waterfall,     *)
(* interest-only construction phase with Bereitstellungszins, annuity      *)
(* rental phase with tilgung-free periods), the cashflow loop that walks   *)
(* the amortization schedule (rent, the four depreciation components,      *)
(* maintenance, tax, net cashflow) and the yearly aggregation.             *)
(*                                                                         *)
(* Arithmetic: the program computes in floating point.  The model computes *)
(* in fixed point: money is an integer number of currency units, a         *)
(* percentage is an integer number of percent (transaction costs: tenths   *)
(* of a percent) and every division rounds down.  The tax refund and the   *)
(* cashflow figures that contain it are kept in hundredths of a currency   *)
(* unit, so that the tax rate is applied without rounding.  Dates are      *)
(* month-granular timestamps, records [year, month], as                    *)
(* pd.Timestamp(y, m, 1).  Year counts are whole numbers.                  *)
(***************************************************************************)
EXTENDS Integers, Sequences, FiniteSets, TLC

VARIABLES
    cfg,             \* the configuration entered in the form (never changes)
    pc,              \* position: "amort" loop, "cashflow" loop, "aggregate",
                     \* "returns", "done"; "error" after an uncaught
                     \* exception
    m,               \* loop counter of the amortization loop
    bal_kfw,         \* outstanding balance of the KfW loan
    bal_main,        \* outstanding balance of the main loan
    cum_main_drawn,  \* cumulative main-loan draws
    equity_rem,      \* equity not yet invested
    monthly_amort,   \* the amortization schedule, one entry per month
    months,          \* the cashflow table, one record per schedule entry
    remaining_deg_value,  \* depreciation base not yet written off
    yearly_cashflow, \* yearly cashflow table (grouped by calendar year)
    amort_rows,      \* yearly amortization table
    returns_rows,    \* returns table, one row per year of the yearly cashflow
    first_run        \* the tables of the first run, once the script reran

vars == <<cfg, pc, m, bal_kfw, bal_main, cum_main_drawn, equity_rem,
          monthly_amort, months, remaining_deg_value, yearly_cashflow,
          amort_rows, returns_rows, first_run>>

\* ---------------------------------------------------------------- bounds
MaxOutputYears == 2
MaxInstallments == 2

\* ------------------------------------------------------------- utilities
Min(a, b) == IF a <= b THEN a ELSE b
Max(a, b) == IF a >= b THEN a ELSE b

\* pd.Timestamp(year, month, 1)
Timestamp(y, mo) == [year |-> y, month |-> mo]

\* date + pd.DateOffset(months=k) / relativedelta(months=k): calendar carry
DateOffset(d, k) ==
    LET idx == d.year * 12 + (d.month - 1) + k
    IN  Timestamp(idx \div 12, (idx % 12) + 1)

\* Timestamp comparison d1 < d2
DateLt(d1, d2) ==
    \/ d1.year < d2.year
    \/ d1.year = d2.year /\ d1.month < d2.month

\* ------------------------------------------------- configuration (inputs)
\* rows of the installment table: (share of the purchase price in percent,
\* month offset from the contract month)
Installments ==
    { [share_pct |-> 40, offset |-> 0], [share_pct |-> 60, offset |-> 2],
      [share_pct |-> 60, offset |-> 6] }

\* schedules are kept in non-decreasing (offset, share) order: the loop that
\* reads them only sums, so the order of the rows does not matter
RowLeq(a, b) ==
    \/ a.offset < b.offset
    \/ a.offset = b.offset /\ a.share_pct <= b.share_pct

Schedules ==
    UNION { { s \in [1..n -> Installments] :
                \A i \in 1..(n - 1) : RowLeq(s[i], s[i + 1]) }
            : n \in 1..MaxInstallments }

\* contract date and grace period (months) of the Bereitstellungszins
Timelines ==
    { [contract_date |-> Timestamp(2026, 1), grace_period_months |-> 1],
      [contract_date |-> Timestamp(2026, 1), grace_period_months |-> 4],
      [contract_date |-> Timestamp(2026, 10), grace_period_months |-> 2] }

EndConstructionDates ==
    { Timestamp(2025, 3), Timestamp(2025, 12), Timestamp(2026, 3),
      Timestamp(2026, 12) }

\* combinations of timeline and end of construction: construction that ended
\* before the contract year is paired with the shortest grace period, and the
\* latest end of construction with the grace periods it outlasts
Timings ==
    { t \in Timelines \X EndConstructionDates :
        /\ t[2].year < t[1].contract_date.year => t[1].grace_period_months = 1
        /\ t[2] = Timestamp(2026, 12) => t[1].grace_period_months > 1 }

\* equity (percent of the investment) together with the depreciation inputs:
\* Sonder-AfA years, degressive and linear years, furnishing depreciation
\* rate (percent a year) and years.  Financing and depreciation do not read
\* each other's inputs, so they are varied side by side.
Scenarios ==
    { [eigenkapital_pct |-> 5, sonder_afa_years |-> 1,
       degressive_years |-> 1, linear_years |-> 1,
       furnishing_annual_depreciation_rate_pct |-> 100,
       furnishing_depreciation_years |-> 1],
      [eigenkapital_pct |-> 60, sonder_afa_years |-> 2,
       degressive_years |-> 0, linear_years |-> 1,
       furnishing_annual_depreciation_rate_pct |-> 50,
       furnishing_depreciation_years |-> 2] }

\* the two loans: KfW amount, KfW interest and main loan interest (percent a
\* year), tilgung-free years of the KfW and of the main loan.  The last
\* profile is the form with the KfW amount set to 0 and its interest left in.
LoanProfiles ==
    { [kfw_loan_amount |-> 0,   kfw_interest_rate_pct |-> 0,
       main_loan_rate_pct |-> 12,
       kfw_tilgung_free_years |-> 0, main_tilgung_free_years |-> 0],
      [kfw_loan_amount |-> 500, kfw_interest_rate_pct |-> 6,
       main_loan_rate_pct |-> 12,
       kfw_tilgung_free_years |-> 0, main_tilgung_free_years |-> 0],
      [kfw_loan_amount |-> 300, kfw_interest_rate_pct |-> 0,
       main_loan_rate_pct |-> 12,
       kfw_tilgung_free_years |-> 1, main_tilgung_free_years |-> 0],
      [kfw_loan_amount |-> 300, kfw_interest_rate_pct |-> 6,
       main_loan_rate_pct |-> 12,
       kfw_tilgung_free_years |-> 0, main_tilgung_free_years |-> 1],
      [kfw_loan_amount |-> 0,   kfw_interest_rate_pct |-> 6,
       main_loan_rate_pct |-> 12,
       kfw_tilgung_free_years |-> 0, main_tilgung_free_years |-> 0] }

\* equity and depreciation inputs with the loans they are combined with:
\* every scenario with every loan profile, and the purchase without equity
\* that an interest-free KfW loan finances whole (no main loan, whose
\* interest is entered as 0)
Financings ==
    (Scenarios \X LoanProfiles)
    \cup { << [eigenkapital_pct |-> 0, sonder_afa_years |-> 1,
               degressive_years |-> 1, linear_years |-> 1,
               furnishing_annual_depreciation_rate_pct |-> 100,
               furnishing_depreciation_years |-> 1],
              [kfw_loan_amount |-> 1266, kfw_interest_rate_pct |-> 0,
               main_loan_rate_pct |-> 0,
               kfw_tilgung_free_years |-> 0, main_tilgung_free_years |-> 0] >> }

Configurations ==
    { [ kaufpreis |-> 1000,
        stellplatz |-> 200,
        real_estate_transfer_tax_pct10 |-> 35,
        notary_pct10 |-> 15,
        land_charge_registration_fees_pct10 |-> 5,
        land_ratio_pct |-> 80,
        eigenkapital_pct |-> fin[1].eigenkapital_pct,
        rent_per_sqm |-> 2,
        area |-> 36,
        rent_parking |-> 28,
        rent_growth_rate_pct |-> 10,
        furnishing_costs |-> 72,
        furnishing_annual_depreciation_rate_pct |->
            fin[1].furnishing_annual_depreciation_rate_pct,
        furnishing_depreciation_years |-> fin[1].furnishing_depreciation_years,
        maintenance_base |-> 30,
        wg_management_fee |-> 30,
        unit_management_fee |-> 0,
        maintenance_growth_pct |-> 10,
        sonder_afa_rate_pct |-> 5,
        sonder_afa_years |-> fin[1].sonder_afa_years,
        sonder_afa_base_amount |-> 7200,
        degressive_afa_rate_pct |-> 12,
        degressive_years |-> fin[1].degressive_years,
        linear_years |-> fin[1].linear_years,
        tax_rate_pct |-> 42,
        sale_growth_pct |-> 2,
        kfw_loan_amount |-> fin[2].kfw_loan_amount,
        kfw_interest_rate_pct |-> fin[2].kfw_interest_rate_pct,
        main_loan_rate_pct |-> fin[2].main_loan_rate_pct,
        kfw_loan_term_years |-> 1,
        main_loan_term_years |-> 1,
        kfw_tilgung_free_years |-> fin[2].kfw_tilgung_free_years,
        main_tilgung_free_years |-> fin[2].main_tilgung_free_years,
        bereitstellungszins_pct |-> 1,
        grace_period_months |-> tm[1].grace_period_months,
        contract_date |-> tm[1].contract_date,
        end_construction |-> tm[2],
        output_years |-> oy,
        payment_schedule |-> ps ] :
      fin \in Financings, tm \in Timings,
      oy \in 1..MaxOutputYears, ps \in Schedules }

\* ------------------------------------------------------ derived quantities
total_purchase_price == cfg.kaufpreis + cfg.stellplatz

total_nbk ==
    (cfg.real_estate_transfer_tax_pct10 * total_purchase_price) \div 1000
    + (cfg.notary_pct10 * total_purchase_price) \div 1000
    + (cfg.land_charge_registration_fees_pct10 * total_purchase_price) \div 1000

total_investment == total_purchase_price + total_nbk

total_afa_value == (total_investment * cfg.land_ratio_pct) \div 100

eigenkapital == (cfg.eigenkapital_pct * total_investment) \div 100

rent_total == cfg.rent_per_sqm * cfg.area + cfg.rent_parking

yearly_furnishing_depreciation ==
    (cfg.furnishing_costs * cfg.furnishing_annual_depreciation_rate_pct) \div 100

maintenance_total ==
    cfg.maintenance_base + cfg.wg_management_fee + cfg.unit_management_fee

useful_years == cfg.degressive_years + cfg.linear_years

furnishing_costs == cfg.furnishing_costs

kfw_loan_amount == cfg.kfw_loan_amount

main_loan_amount == total_investment - eigenkapital - kfw_loan_amount

start_month == Timestamp(cfg.contract_date.year, cfg.contract_date.month)

rent_start ==
    DateOffset(Timestamp(cfg.end_construction.year, cfg.end_construction.month), 1)

start_year == start_month.year

last_output_year == start_year + cfg.output_years - 1

last_month == Timestamp(last_output_year, 12)

\* mutant: the month count without the closing + 1
total_months_NoPlusOne ==
    (last_month.year - start_month.year) * 12
    + (last_month.month - start_month.month)

total_months ==
    (last_month.year - start_month.year) * 12
    + (last_month.month - start_month.month)
    + 1

kfw_months == cfg.kfw_loan_term_years * 12
main_months == cfg.main_loan_term_years * 12

kfw_tilgung_free_months == cfg.kfw_tilgung_free_years * 12
main_tilgung_free_months == cfg.main_tilgung_free_years * 12

grace_period_months == cfg.grace_period_months

\* (1 + rate/12) ** n in fixed point, scale 10000
RECURSIVE Growth(_, _)
Growth(rate_pct, n) ==
    IF n = 0 THEN 10000
    ELSE (Growth(rate_pct, n - 1) * (1200 + rate_pct)) \div 1200

\* PMT: loan * i / (1 - (1 + i) ** (-n)); straight-line when the rate is 0
Pmt(loan, rate_pct, n) ==
    IF rate_pct > 0
    THEN LET g == Growth(rate_pct, n)
         IN  (((loan * rate_pct) \div 1200) * g) \div (g - 10000)
    ELSE loan \div n

monthly_payment_kfw == Pmt(kfw_loan_amount, cfg.kfw_interest_rate_pct, kfw_months)
monthly_payment_main == Pmt(main_loan_amount, cfg.main_loan_rate_pct, main_months)

\* The form resolves each loan's effective tilgung rate from its term
\* (calculation method "Loan term (years)"): with a positive interest rate it
\* divides the yearly payment by the loan amount, which raises
\* ZeroDivisionError when that amount is 0.
KfwTilgungRateRaises == cfg.kfw_interest_rate_pct > 0 /\ kfw_loan_amount = 0

MainTilgungRateRaises == cfg.main_loan_rate_pct > 0 /\ main_loan_amount = 0

\* the script stops at an uncaught exception of the input section
InputsRaise == KfwTilgungRateRaises \/ MainTilgungRateRaises

\* ----------------------------------------------- one month of the schedule
\* mutant: only the first installment due at date_m is drawn
RECURSIVE InstallmentDraw_FirstOnly(_, _)
InstallmentDraw_FirstOnly(sched, date_m) ==
    IF sched = <<>> THEN 0
    ELSE IF date_m = DateOffset(start_month, Head(sched).offset)
         THEN (total_purchase_price * Head(sched).share_pct) \div 100
         ELSE InstallmentDraw_FirstOnly(Tail(sched), date_m)

\* sum of total_purchase_price * share over the installments due at date_m
RECURSIVE InstallmentDraw(_, _)
InstallmentDraw(sched, date_m) ==
    IF sched = <<>> THEN 0
    ELSE (IF date_m = DateOffset(start_month, Head(sched).offset)
          THEN (total_purchase_price * Head(sched).share_pct) \div 100
          ELSE 0)
         + InstallmentDraw(Tail(sched), date_m)

\* mutant: the furnishing costs are never drawn
Draw_NoFurnishing(date_m) ==
    (IF date_m = start_month THEN total_nbk ELSE 0)
    + InstallmentDraw(cfg.payment_schedule, date_m)

Draw(date_m) ==
    (IF date_m = start_month THEN total_nbk + furnishing_costs ELSE 0)
    + InstallmentDraw(cfg.payment_schedule, date_m)

\* mutant: the draw is compared with the initial equity, not the remaining
EquityUsed_Initial(draw, eq) == Min(draw, eigenkapital)

EquityUsed(draw, eq) == Min(draw, eq)

Financed(draw, equity_used) == Max(0, draw - equity_used)

\* mutant: the KfW draw is capped by the limit, not by the undrawn rest
KfwDraw_NoBalance(financed, bal) ==
    IF financed > 0 /\ bal < kfw_loan_amount
    THEN Min(financed, kfw_loan_amount)
    ELSE 0

KfwDraw(financed, bal) ==
    IF financed > 0 /\ bal < kfw_loan_amount
    THEN Min(financed, kfw_loan_amount - bal)
    ELSE 0

\* mutant: the main draw is capped by the undrawn main_loan_amount
MainDraw_Capped(financed, kfw_draw) ==
    Min(Max(0, financed - kfw_draw), Max(0, main_loan_amount - bal_main))

MainDraw(financed, kfw_draw) ==
    IF financed - kfw_draw > 0 THEN financed - kfw_draw ELSE 0

\* mutant: a year's interest is charged every month
Interest_Annual(bal, rate_pct) == (bal * rate_pct) \div 100

Interest(bal, rate_pct) == (bal * rate_pct) \div 1200

MonthsSinceRent(date_m) ==
    (date_m.year - rent_start.year) * 12 + (date_m.month - rent_start.month)

\* mutant: the fee is charged from the contract month, without grace period
Bereitstellung_NoGrace(mm, date_m, bal) ==
    IF DateLt(date_m, rent_start)
    THEN (Max(0, main_loan_amount - bal) * cfg.bereitstellungszins_pct) \div 100
    ELSE 0

Bereitstellung(mm, date_m, bal) ==
    IF DateLt(date_m, rent_start) /\ mm >= grace_period_months
    THEN (Max(0, main_loan_amount - bal) * cfg.bereitstellungszins_pct) \div 100
    ELSE 0

\* mutant: during a tilgung-free period the interest is added to the balance
Principal_Capitalised(date_m, bal, interest, payment, free_months) ==
    IF DateLt(date_m, rent_start) THEN 0
    ELSE IF MonthsSinceRent(date_m) < free_months THEN 0 - interest
    ELSE Min(Max(0, payment - interest), bal)

\* mutant: the annuity is paid from the first month, construction included
Principal_NoPhase(date_m, bal, interest, payment, free_months) ==
    IF ~DateLt(date_m, rent_start) /\ MonthsSinceRent(date_m) < free_months
    THEN 0
    ELSE Min(Max(0, payment - interest), bal)

\* mutant: one tilgung-free period, the longer one, for both loans
Principal_SharedFree(date_m, bal, interest, payment, free_months) ==
    IF DateLt(date_m, rent_start) THEN 0
    ELSE IF MonthsSinceRent(date_m)
              < Max(kfw_tilgung_free_months, main_tilgung_free_months) THEN 0
    ELSE Min(Max(0, payment - interest), bal)

Principal(date_m, bal, interest, payment, free_months) ==
    IF DateLt(date_m, rent_start) THEN 0
    ELSE IF MonthsSinceRent(date_m) < free_months THEN 0
    ELSE Min(Max(0, payment - interest), bal)

\* the entry appended for loop counter mm, from the state before the month
AmortEntry(mm) ==
    LET date_m == DateOffset(start_month, mm)
        draw == Draw(date_m)
        equity_used == EquityUsed(draw, equity_rem)
        financed == Financed(draw, equity_used)
        month_kfw_draw == KfwDraw(financed, bal_kfw)
        month_main_draw == MainDraw(financed, month_kfw_draw)
        kfw_drawn == bal_kfw + month_kfw_draw
        main_drawn == bal_main + month_main_draw
        interest_kfw == Interest(kfw_drawn, cfg.kfw_interest_rate_pct)
        interest_main_drawn == Interest(main_drawn, cfg.main_loan_rate_pct)
        principal_kfw == Principal(date_m, kfw_drawn, interest_kfw,
                                   monthly_payment_kfw, kfw_tilgung_free_months)
        principal_main == Principal(date_m, main_drawn, interest_main_drawn,
                                    monthly_payment_main, main_tilgung_free_months)
        bereitstellung == Bereitstellung(mm, date_m, main_drawn)
    IN  [ date |-> date_m,
          kfw_draw |-> month_kfw_draw,
          main_draw |-> month_main_draw,
          equity_used |-> equity_used,
          interest_kfw |-> interest_kfw,
          principal_kfw |-> principal_kfw,
          interest_main_drawn |-> interest_main_drawn,
          principal_main |-> principal_main,
          main_undrawn |-> Max(0, main_loan_amount
                                   - (cum_main_drawn + month_main_draw)),
          provision |-> bereitstellung,
          interest_main_total |-> interest_main_drawn + bereitstellung,
          bal_kfw |-> kfw_drawn - principal_kfw,
          bal_main |-> main_drawn - principal_main,
          loan_balance |-> (kfw_drawn - principal_kfw)
                           + (main_drawn - principal_main) ]

\* ---------------------------------------------------------------- actions
Init ==
    /\ cfg \in Configurations
    /\ pc = IF InputsRaise THEN "error" ELSE "amort"
    /\ m = 0
    /\ bal_kfw = 0
    /\ bal_main = 0
    /\ cum_main_drawn = 0
    /\ equity_rem = eigenkapital
    /\ monthly_amort = <<>>
    /\ months = <<>>
    /\ remaining_deg_value = total_afa_value
    /\ yearly_cashflow = <<>>
    /\ amort_rows = <<>>
    /\ returns_rows = <<>>
    /\ first_run = <<>>

\* one iteration of "for m in range(total_months)"
AmortMonth ==
    /\ pc = "amort"
    /\ m < total_months
    /\ LET e == AmortEntry(m)
       IN  /\ monthly_amort' = Append(monthly_amort, e)
           /\ equity_rem' = equity_rem - e.equity_used
           /\ bal_kfw' = e.bal_kfw
           /\ bal_main' = e.bal_main
           /\ cum_main_drawn' = cum_main_drawn + e.main_draw
    /\ m' = m + 1
    /\ UNCHANGED <<cfg, pc, months, remaining_deg_value, yearly_cashflow,
                   amort_rows,
                   returns_rows, first_run>>

\* the amortization loop is exhausted: the cashflow loop starts
AmortDone ==
    /\ pc = "amort"
    /\ m >= total_months
    /\ pc' = "cashflow"
    /\ UNCHANGED <<cfg, m, bal_kfw, bal_main, cum_main_drawn, equity_rem,
                   monthly_amort, months, remaining_deg_value,
                   yearly_cashflow, amort_rows,
                   returns_rows, first_run>>

\* ------------------------------------------- one month of the cashflow
\* base * (1 + pct/100) ** k
RECURSIVE Compound(_, _, _)
Compound(base, pct, k) ==
    IF k = 0 THEN base
    ELSE (Compound(base, pct, k - 1) * (100 + pct)) \div 100

\* d1 <= d2
DateLeq(d1, d2) == ~DateLt(d2, d1)

\* whole months from d1 to d2
MonthsBetween(d1, d2) == (d2.year - d1.year) * 12 + (d2.month - d1.month)

\* mutant: rent is charged whether or not the rental has started
Rent_Always(date_m) ==
    Compound(rent_total, cfg.rent_growth_rate_pct,
             Max(0, MonthsSinceRent(date_m) \div 12))

Rent(date_m) ==
    IF DateLeq(rent_start, date_m)
    THEN Compound(rent_total, cfg.rent_growth_rate_pct,
                  Max(0, MonthsSinceRent(date_m) \div 12))
    ELSE 0

Maintenance(date_m) ==
    IF DateLeq(rent_start, date_m)
    THEN Compound(maintenance_total, cfg.maintenance_growth_pct,
                  Max(0, date_m.year - (rent_start.year + 1)))
    ELSE 0

annual_sonder == (cfg.sonder_afa_base_amount * cfg.sonder_afa_rate_pct) \div 100

SonderMonthly(date_m) ==
    LET year_index == date_m.year - rent_start.year
        remaining_months_in_year == 12 - (rent_start.month - 1)
    IN  IF DateLt(date_m, rent_start) THEN 0
        ELSE IF year_index < cfg.sonder_afa_years
        THEN IF year_index = 0
             THEN IF remaining_months_in_year > 0
                  THEN annual_sonder \div remaining_months_in_year
                  ELSE annual_sonder \div 12
             ELSE annual_sonder \div 12
        ELSE 0

\* last month of the degressive period
degressive_end_month ==
    DateOffset(DateOffset(rent_start, 12 * cfg.degressive_years), -1)

\* last month of the linear period (end of the useful years)
linear_end_month == DateOffset(DateOffset(rent_start, 12 * useful_years), -1)

effective_linear_end ==
    IF DateLeq(linear_end_month, last_month) THEN linear_end_month
    ELSE last_month

\* mutant: every degressive month writes off the rate on the initial base
DegressiveMonthly_Initial(date_m, remaining) ==
    IF DateLt(date_m, rent_start) THEN 0
    ELSE IF DateLeq(date_m, degressive_end_month)
    THEN (total_afa_value * cfg.degressive_afa_rate_pct) \div 1200
    ELSE 0

DegressiveMonthly(date_m, remaining) ==
    IF DateLt(date_m, rent_start) THEN 0
    ELSE IF DateLeq(date_m, degressive_end_month)
    THEN (remaining * cfg.degressive_afa_rate_pct) \div 1200
    ELSE 0

\* mutant: the linear window is not capped to the simulated horizon
LinearMonthly_Uncapped(date_m, remaining) ==
    LET remaining_linear_months == MonthsBetween(date_m, linear_end_month) + 1
    IN  IF DateLt(date_m, rent_start) THEN 0
        ELSE IF DateLeq(date_m, degressive_end_month) THEN 0
        ELSE IF remaining_linear_months > 0 /\ remaining > 0
        THEN remaining \div remaining_linear_months
        ELSE 0

LinearMonthly(date_m, remaining) ==
    LET remaining_linear_months == MonthsBetween(date_m, effective_linear_end) + 1
    IN  IF DateLt(date_m, rent_start) THEN 0
        ELSE IF DateLeq(date_m, degressive_end_month) THEN 0
        ELSE IF remaining_linear_months > 0 /\ remaining > 0
        THEN remaining \div remaining_linear_months
        ELSE 0

last_furnishing_month ==
    DateOffset(DateOffset(rent_start, 12 * cfg.furnishing_depreciation_years), -1)

\* mutant: the final year of the window never counts as a full year
FurnishingMonthly_NoFullYear(date_m) ==
    LET annual_furnishing == yearly_furnishing_depreciation
        remaining_months_in_year == 12 - (rent_start.month - 1)
    IN  IF DateLt(date_m, rent_start) \/ DateLt(last_furnishing_month, date_m)
        THEN 0
        ELSE IF date_m.year = rent_start.year
        THEN annual_furnishing \div remaining_months_in_year
        ELSE IF date_m.year = last_furnishing_month.year
        THEN annual_furnishing \div last_furnishing_month.month
        ELSE annual_furnishing \div 12

FurnishingMonthly(date_m) ==
    LET annual_furnishing == yearly_furnishing_depreciation
        remaining_months_in_year == 12 - (rent_start.month - 1)
        months_in_final_year ==
            IF date_m.year = start_year + cfg.output_years - 1 THEN 12
            ELSE last_furnishing_month.month
    IN  IF DateLt(date_m, rent_start) \/ DateLt(last_furnishing_month, date_m)
        THEN 0
        ELSE IF date_m.year = rent_start.year
        THEN IF remaining_months_in_year > 0
             THEN annual_furnishing \div remaining_months_in_year
             ELSE annual_furnishing \div 12
        ELSE IF date_m.year = last_furnishing_month.year
        THEN IF months_in_final_year > 0
             THEN annual_furnishing \div months_in_final_year
             ELSE annual_furnishing \div 12
        ELSE annual_furnishing \div 12

\* mutant: depreciation is not deducted from the taxable income
GrossIncome_NoAfa(rent, interest_total, afa, maintenance) ==
    rent - interest_total - maintenance

\* Gross Income = rent - interest - all depreciation - maintenance
GrossIncome(rent, interest_total, afa, maintenance) ==
    rent - interest_total - afa - maintenance

\* -gross_income * tax_rate, in hundredths of a currency unit
TaxRefund(gross_income) == (0 - gross_income) * cfg.tax_rate_pct

\* rent - interest_total - provision - maintenance + tax_refund, in
\* hundredths of a currency unit
Cashflow(rent, interest_total, provision, maintenance, tax_refund) ==
    100 * (rent - interest_total - provision - maintenance) + tax_refund

\* the record appended for a schedule entry, from the state before the month
CashflowRecord(entry) ==
    LET date_m == entry.date
        rent == Rent(date_m)
        sonder_monthly == SonderMonthly(date_m)
        degressive_monthly == DegressiveMonthly(date_m, remaining_deg_value)
        linear_monthly == LinearMonthly(date_m, remaining_deg_value)
        furnishing_monthly == FurnishingMonthly(date_m)
        afa == sonder_monthly + degressive_monthly + linear_monthly
               + furnishing_monthly
        maintenance == Maintenance(date_m)
        interest_total == entry.interest_kfw + entry.interest_main_total
        provision == entry.provision
        gross_income == GrossIncome(rent, interest_total, afa, maintenance)
        tax_refund == TaxRefund(gross_income)
    IN  [ date |-> date_m,
          rent |-> rent,
          sonder_afa |-> sonder_monthly,
          degressive_afa |-> degressive_monthly,
          linear_afa |-> linear_monthly,
          dep_furnishing |-> furnishing_monthly,
          maintenance |-> maintenance,
          gross_income |-> gross_income,
          tax_refund |-> tax_refund,
          equity_invested |-> entry.equity_used,
          tilgung_kfw |-> entry.principal_kfw,
          tilgung_main |-> entry.principal_main,
          provision |-> provision,
          interest |-> interest_total,
          cashflow |-> Cashflow(rent, interest_total, provision, maintenance,
                                tax_refund),
          loan_balance |-> entry.loan_balance ]

\* one iteration of "for entry in monthly_amort"
CashflowMonth ==
    /\ pc = "cashflow"
    /\ Len(months) < Len(monthly_amort)
    /\ LET r == CashflowRecord(monthly_amort[Len(months) + 1])
       IN  /\ months' = Append(months, r)
           /\ remaining_deg_value'
                = Max(0, remaining_deg_value - r.degressive_afa - r.linear_afa)
    /\ UNCHANGED <<cfg, pc, m, bal_kfw, bal_main, cum_main_drawn, equity_rem,
                   monthly_amort, yearly_cashflow, amort_rows,
                   returns_rows, first_run>>

\* the cashflow loop is exhausted: the yearly tables are built next
CashflowDone ==
    /\ pc = "cashflow"
    /\ Len(months) >= Len(monthly_amort)
    /\ pc' = "aggregate"
    /\ UNCHANGED <<cfg, m, bal_kfw, bal_main, cum_main_drawn, equity_rem,
                   monthly_amort, months, remaining_deg_value,
                   yearly_cashflow, amort_rows,
                   returns_rows, first_run>>

\* ------------------------------------------------- yearly aggregation
\* sum of column f over the first n rows of seq that fall in year y
RECURSIVE SumOfYear(_, _, _, _)
SumOfYear(seq, f, y, n) ==
    IF n = 0 THEN 0
    ELSE SumOfYear(seq, f, y, n - 1)
         + (IF seq[n].date.year = y THEN seq[n][f] ELSE 0)

\* value of column f in the last of the first n rows of seq that falls in
\* year y; dflt when the year has no row
RECURSIVE LastOfYear(_, _, _, _, _)
LastOfYear(seq, f, y, n, dflt) ==
    IF n = 0 THEN dflt
    ELSE IF seq[n].date.year = y THEN seq[n][f]
    ELSE LastOfYear(seq, f, y, n - 1, dflt)

\* the calendar years that have a row in the monthly table, ascending
GroupYears ==
    LET ys == { months[i].date.year : i \in 1..Len(months) }
    IN  [ k \in 1..Cardinality(ys) |->
            CHOOSE y \in ys : Cardinality({ z \in ys : z < y }) = k - 1 ]

\* mutant: the loan remaining of a year is summed like a flow
LoanRemaining_Summed(y) == SumOfYear(months, "loan_balance", y, Len(months))

\* the loan remaining of a year: the last month's balance
LoanRemaining(y) == LastOfYear(months, "loan_balance", y, Len(months), 0)

\* Rent - Zinsen - Tilgung - Maintenance of a year
TotalBeforeTaxRefund(rent, zinsen, tilgung, maintenance) ==
    rent - zinsen - tilgung - maintenance

\* one row of the yearly cashflow table, cumulative column excluded
GroupedRow(y) ==
    LET n == Len(months)
        rent == SumOfYear(months, "rent", y, n)
        zinsen == SumOfYear(months, "interest", y, n)
        tilgung == SumOfYear(months, "tilgung_kfw", y, n)
                   + SumOfYear(months, "tilgung_main", y, n)
        maintenance == SumOfYear(months, "maintenance", y, n)
        sonder == SumOfYear(months, "sonder_afa", y, n)
        degressive == SumOfYear(months, "degressive_afa", y, n)
        linear == SumOfYear(months, "linear_afa", y, n)
        furnishing == SumOfYear(months, "dep_furnishing", y, n)
        tax_refund == SumOfYear(months, "tax_refund", y, n)
        equity == SumOfYear(months, "equity_invested", y, n)
        before_tax == TotalBeforeTaxRefund(rent, zinsen, tilgung, maintenance)
        total_cash_flow == 100 * before_tax + tax_refund
    IN  [ year |-> y,
          rent |-> rent,
          zinsen |-> zinsen,
          tilgung |-> tilgung,
          maintenance |-> maintenance,
          sonder_afa |-> sonder,
          degressive_afa |-> degressive,
          linear_afa |-> linear,
          dep_furnishing |-> furnishing,
          total_afa |-> sonder + degressive + linear + furnishing,
          total_before_tax_refund |-> before_tax,
          tax_refund |-> tax_refund,
          total_cash_flow |-> total_cash_flow,
          equity_invested |-> equity,
          net_cash_movement |-> total_cash_flow - 100 * equity,
          loan_remaining |-> LoanRemaining(y) ]

\* one row of the yearly amortization table, from year_data (zero-filled
\* when the year has no schedule entry)
AmortRow(y) ==
    LET n == Len(monthly_amort)
        kfw_int == SumOfYear(monthly_amort, "interest_kfw", y, n)
        kfw_princ == SumOfYear(monthly_amort, "principal_kfw", y, n)
        main_int_drawn == SumOfYear(monthly_amort, "interest_main_drawn", y, n)
        main_prov == SumOfYear(monthly_amort, "provision", y, n)
        main_princ == SumOfYear(monthly_amort, "principal_main", y, n)
    IN  [ year |-> y,
          kfw_drawn |-> SumOfYear(monthly_amort, "kfw_draw", y, n),
          zinsen_kfw |-> kfw_int,
          tilgung_kfw |-> kfw_princ,
          kfw_payment |-> kfw_int + kfw_princ,
          bal_kfw |-> LastOfYear(monthly_amort, "bal_kfw", y, n, 0),
          main_drawn |-> SumOfYear(monthly_amort, "main_draw", y, n),
          zinsen_main |-> main_int_drawn,
          tilgung_main |-> main_princ,
          main_undrawn |-> LastOfYear(monthly_amort, "main_undrawn", y, n, 0),
          bereitstellung |-> main_prov,
          bal_main |-> LastOfYear(monthly_amort, "bal_main", y, n, 0),
          total_annual_payment |->
              kfw_int + kfw_princ + main_int_drawn + main_princ + main_prov ]

\* the yearly cashflow table (groupby year) and the yearly amortization
\* table (one row per output year) are built from the monthly tables
Aggregate ==
    /\ pc = "aggregate"
    /\ yearly_cashflow' = [ k \in 1..Len(GroupYears) |-> GroupedRow(GroupYears[k]) ]
    /\ amort_rows' = [ k \in 1..cfg.output_years |-> AmortRow(start_year + k - 1) ]
    /\ pc' = "returns"
    /\ UNCHANGED <<cfg, m, bal_kfw, bal_main, cum_main_drawn, equity_rem,
                   monthly_amort, months, remaining_deg_value, returns_rows, first_run>>

\* --------------------------------------------------------- returns table
\* All amounts of the returns table are in hundredths of a currency unit.
purchase_year == start_year

initial_price == total_purchase_price

RECURSIVE Pow(_, _)
Pow(b, e) == IF e = 0 THEN 1 ELSE b * Pow(b, e - 1)

Sign(x) == IF x > 0 THEN 1 ELSE IF x < 0 THEN 0 - 1 ELSE 0

\* running sum of column f over the first i rows of the yearly cashflow
RECURSIVE CumOf(_, _)
CumOf(f, i) == IF i = 0 THEN 0 ELSE CumOf(f, i - 1) + yearly_cashflow[i][f]

\* mutant: principal repayments count as an outflow
CumOutflow_WithTilgung(i) ==
    100 * (CumOf("equity_invested", i) + CumOf("zinsen", i)
           + CumOf("maintenance", i) + CumOf("tilgung", i))

CumOutflow(i) ==
    100 * (CumOf("equity_invested", i) + CumOf("zinsen", i)
           + CumOf("maintenance", i))

CumInflow(i) == 100 * CumOf("rent", i) + CumOf("tax_refund", i)

\* projected property price in year y
ProjectedPrice(y) ==
    100 * Compound(initial_price, cfg.sale_growth_pct, y - purchase_year)

NetSaleProceeds(i) ==
    ProjectedPrice(yearly_cashflow[i].year)
    - 100 * yearly_cashflow[i].loan_remaining

Profit(i) == NetSaleProceeds(i) + CumInflow(i) - CumOutflow(i)

\* ROI in percent
RoiPct(prof, cum_outflow) ==
    IF cum_outflow > 0 THEN (prof * 100) \div cum_outflow ELSE 0

\* mutant: the years held without the purchase year
NYears_Held(y) == y - purchase_year

\* years held, counting the purchase year
NYears(y) == y - purchase_year + 1

\* (base / cum_outflow) ** (1 / n) - 1 on a grid of tenths, between -100%
\* and +300%, on whole currency units: the largest growth t / 10 with
\* cum_outflow * (1 + t / 10) ** n <= base
CagrRoot(base, cum_outflow, n) ==
    LET b == base \div 100
        o == cum_outflow \div 100
        fits == { t \in (0 - 10)..30 : o * Pow(10 + t, n) <= b * Pow(10, n) }
    IN  IF fits = {} THEN 0 - 10
        ELSE CHOOSE t \in fits : \A u \in fits : u <= t

\* CAGR in percent
CagrPct(prof, cum_outflow, y) ==
    IF cum_outflow > 0 /\ prof + cum_outflow > 0
    THEN 10 * CagrRoot(prof + cum_outflow, cum_outflow, NYears(y))
    ELSE 0

\* entry j (from 0) of the annual series: rent + tax - interest -
\* maintenance - equity of the year
AnnualNetCashflow(j) ==
    LET row == yearly_cashflow[j + 1]
    IN  IF j = 0
        THEN (0 - 100 * row.equity_invested)
             + (100 * row.rent + row.tax_refund - 100 * row.zinsen
                - 100 * row.maintenance)
        ELSE 100 * row.rent + row.tax_refund - 100 * row.zinsen
             - 100 * row.maintenance - 100 * row.equity_invested

\* mutant: the sale proceeds are booked in the first year of the series
IrrCashflows_SaleFirst(i) ==
    [ k \in 1..(i + 1) |->
        AnnualNetCashflow(k - 1)
        + (IF k = 1 THEN NetSaleProceeds(i + 1) ELSE 0) ]

\* the series for a sale at the end of the year with index i (from 0)
IrrCashflows(i) ==
    [ k \in 1..(i + 1) |->
        AnnualNetCashflow(k - 1)
        + (IF k = i + 1 THEN NetSaleProceeds(i + 1) ELSE 0) ]

\* npf.irr.  The internal rate of return is the rate r at which the net
\* present value sum of series[k] / (1 + r) ** (k - 1) is zero.  The sign of
\* the net present value at the discount factor a / b is the sign of
\* NpvScaled; the root is located on IrrGrid, a grid of discount factors
\* with their rates in percent, from +1500% down to -94%.
RECURSIVE NpvScaled(_, _, _, _)
NpvScaled(series, a, b, k) ==
    IF k = 0 THEN 0
    ELSE NpvScaled(series, a, b, k - 1)
         + series[k] * Pow(a, k - 1) * Pow(b, Len(series) - k)

IrrGrid ==
    << [a |-> 1, b |-> 16, rate |-> 1500], [a |-> 1, b |-> 8, rate |-> 700],
       [a |-> 1, b |-> 4, rate |-> 300], [a |-> 1, b |-> 2, rate |-> 100],
       [a |-> 2, b |-> 3, rate |-> 50], [a |-> 4, b |-> 5, rate |-> 25],
       [a |-> 10, b |-> 11, rate |-> 10], [a |-> 1, b |-> 1, rate |-> 0],
       [a |-> 10, b |-> 9, rate |-> 0 - 10], [a |-> 5, b |-> 4, rate |-> 0 - 20],
       [a |-> 2, b |-> 1, rate |-> 0 - 50], [a |-> 4, b |-> 1, rate |-> 0 - 75],
       [a |-> 16, b |-> 1, rate |-> 0 - 94] >>

\* sign of the first (first = TRUE) or last non-zero entry among the first k
RECURSIVE EndSign(_, _, _)
EndSign(series, k, first) ==
    IF k = 0 THEN 0
    ELSE IF first
    THEN (IF EndSign(series, k - 1, first) # 0
          THEN EndSign(series, k - 1, first) ELSE Sign(series[k]))
    ELSE (IF Sign(series[k]) # 0
          THEN Sign(series[k]) ELSE EndSign(series, k - 1, first))

\* what a NaN carries in place of a rate: no rate of the grid
NanPayload == 0 - 9999

\* the result of npf.irr: a finite rate (in percent), or NaN when the net
\* present value has no zero
NpfIrr(series) ==
    LET n == Len(IrrGrid)
        sg(k) == Sign(NpvScaled(series, IrrGrid[k].a, IrrGrid[k].b, Len(series)))
        at_zero == EndSign(series, Len(series), TRUE)
        at_infinity == EndSign(series, Len(series), FALSE)
        crossings ==
            { k \in 1..n : sg(k) = 0 /\ at_zero # 0 }
            \cup { k \in 1..(n - 1) : sg(k) * sg(k + 1) < 0 }
            \cup { k \in {1} : sg(k) * at_zero < 0 }
            \cup { k \in {n} : sg(k) * at_infinity < 0 }
        rates == { IrrGrid[k].rate : k \in crossings }
        Abs(x) == IF x < 0 THEN 0 - x ELSE x
    IN  IF rates = {} THEN [kind |-> "nan", rate |-> NanPayload]
        ELSE [kind |-> "finite",
              rate |-> CHOOSE r \in rates :
                          \A q \in rates :
                              Abs(r) < Abs(q) \/ (Abs(r) = Abs(q) /\ r <= q)]

\* IRR of a row in percent: a missing, NaN or infinite result and an
\* exception all give 0
\* mutant: only a missing result and an exception are replaced by 0
IrrVal_NanKept(res) == IF res.kind \in {"none", "raise"} THEN 0 ELSE res.rate

IrrVal(res) == IF res.kind \in {"none", "nan", "inf", "raise"} THEN 0 ELSE res.rate

ReturnsRow(i) ==
    LET y == yearly_cashflow[i].year
        cum_outflow == CumOutflow(i)
        cum_inflow == CumInflow(i)
        prof == Profit(i)
        temp_irr_cashflows == IrrCashflows(i - 1)
    IN  [ year |-> y,
          price |-> ProjectedPrice(y),
          loan_remaining |-> 100 * yearly_cashflow[i].loan_remaining,
          sale_proceeds |-> NetSaleProceeds(i),
          cum_out_eq |-> 100 * CumOf("equity_invested", i),
          cum_out_interest |-> 100 * CumOf("zinsen", i),
          cum_out_maint |-> 100 * CumOf("maintenance", i),
          cum_outflow |-> cum_outflow,
          cum_in_rent |-> 100 * CumOf("rent", i),
          cum_in_tax |-> CumOf("tax_refund", i),
          cum_inflow |-> cum_inflow,
          profit |-> prof,
          roi |-> RoiPct(prof, cum_outflow),
          cagr |-> CagrPct(prof, cum_outflow, y),
          irr_cashflows |-> temp_irr_cashflows,
          irr |-> IrrVal(NpfIrr(temp_irr_cashflows)) ]

\* the returns loop over the years of the yearly cashflow table
Returns ==
    /\ pc = "returns"
    /\ returns_rows' = [ i \in 1..Len(yearly_cashflow) |-> ReturnsRow(i) ]
    /\ pc' = "done"
    /\ UNCHANGED <<cfg, m, bal_kfw, bal_main, cum_main_drawn, equity_rem,
                   monthly_amort, months, remaining_deg_value,
                   yearly_cashflow, amort_rows, first_run>>

\* mutant: the second run starts from what the first run left behind
Rerun_CarryOver ==
    /\ pc = "done"
    /\ first_run = <<>>
    /\ first_run' = << [months |-> months,
                        yearly_cashflow |-> yearly_cashflow,
                        amort_rows |-> amort_rows,
                        returns_rows |-> returns_rows] >>
    /\ pc' = "amort"
    /\ m' = 0
    /\ monthly_amort' = <<>>
    /\ months' = <<>>
    /\ yearly_cashflow' = <<>>
    /\ amort_rows' = <<>>
    /\ returns_rows' = <<>>
    /\ UNCHANGED <<cfg, bal_kfw, bal_main, cum_main_drawn, equity_rem,
                   remaining_deg_value>>

\* The script runs again from the top on the same inputs: every variable of
\* the simulation is assigned anew before it is read.  The tables of the
\* finished run are kept aside for comparison.
Rerun ==
    /\ pc = "done"
    /\ first_run = <<>>
    /\ first_run' = << [months |-> months,
                        yearly_cashflow |-> yearly_cashflow,
                        amort_rows |-> amort_rows,
                        returns_rows |-> returns_rows] >>
    /\ pc' = "amort"
    /\ m' = 0
    /\ bal_kfw' = 0
    /\ bal_main' = 0
    /\ cum_main_drawn' = 0
    /\ equity_rem' = eigenkapital
    /\ monthly_amort' = <<>>
    /\ months' = <<>>
    /\ remaining_deg_value' = total_afa_value
    /\ yearly_cashflow' = <<>>
    /\ amort_rows' = <<>>
    /\ returns_rows' = <<>>
    /\ UNCHANGED cfg

Next ==
    \/ AmortMonth \/ AmortDone \/ CashflowMonth \/ CashflowDone
    \/ Aggregate \/ Returns

Spec == Init /\ [][Next]_vars

\* two runs of the script on the same inputs, for the contracts signed in
\* October
RerunInit == Init /\ cfg.contract_date.month = 10

RerunNext == Next \/ Rerun

RerunSpec == RerunInit /\ [][RerunNext]_vars

\* ------------------------------------------------- reading the schedule
\* balances at the end of the month before entry i (0 before the first)
PrevBalKfw(i) == IF i = 1 THEN 0 ELSE monthly_amort[i - 1].bal_kfw
PrevBalMain(i) == IF i = 1 THEN 0 ELSE monthly_amort[i - 1].bal_main

\* a month's draw as the schedule records it
EntryDraw(i) ==
    monthly_amort[i].equity_used + monthly_amort[i].kfw_draw
    + monthly_amort[i].main_draw

RECURSIVE SumEquityUsed(_)
SumEquityUsed(i) ==
    IF i = 0 THEN 0 ELSE monthly_amort[i].equity_used + SumEquityUsed(i - 1)

RECURSIVE SumMainDraw(_)
SumMainDraw(i) ==
    IF i = 0 THEN 0 ELSE monthly_amort[i].main_draw + SumMainDraw(i - 1)

RECURSIVE SumDraws(_)
SumDraws(i) == IF i = 0 THEN 0 ELSE EntryDraw(i) + SumDraws(i - 1)

\* the equity pool after entry i
Pool(i) == eigenkapital - SumEquityUsed(i)

\* entry i lies in the rental phase (at or after rent_start)
Rental(i) == ~DateLt(monthly_amort[i].date, rent_start)

\* the draw due k months after the contract month, from the inputs alone
RECURSIVE DueAt(_, _)
DueAt(sched, k) ==
    IF sched = <<>> THEN 0
    ELSE (IF Head(sched).offset = k
          THEN (total_purchase_price * Head(sched).share_pct) \div 100
          ELSE 0)
         + DueAt(Tail(sched), k)

ExpectedDraw(k) ==
    (IF k = 0 THEN total_nbk + furnishing_costs ELSE 0)
    + DueAt(cfg.payment_schedule, k)

RECURSIVE ShareSum(_)
ShareSum(sched) ==
    IF sched = <<>> THEN 0 ELSE Head(sched).share_pct + ShareSum(Tail(sched))

\* purchase-price installments that fall inside the simulated horizon
RECURSIVE DueInHorizon(_)
DueInHorizon(sched) ==
    IF sched = <<>> THEN 0
    ELSE (IF Head(sched).offset < total_months
          THEN (total_purchase_price * Head(sched).share_pct) \div 100
          ELSE 0)
         + DueInHorizon(Tail(sched))

AllDueInHorizon ==
    \A j \in 1..Len(cfg.payment_schedule) :
        cfg.payment_schedule[j].offset < total_months

Entries == 1..Len(monthly_amort)

\* the entry of the month just simulated.  The schedule only grows by
\* appending, so every entry is the latest one in the state right after its
\* month: a property of the latest entry in every reachable state is a
\* property of every entry.
Latest == IF monthly_amort = <<>> THEN {} ELSE {Len(monthly_amort)}

\* ------------------------------------------------------------------ C1
\* C1 as stated: after every simulated month each loan balance lies between
\* 0 and that loan's principal limit (kfw_loan_amount, main_loan_amount).
C1_Original ==
    \A i \in Entries :
        /\ 0 <= monthly_amort[i].bal_kfw
        /\ monthly_amort[i].bal_kfw <= kfw_loan_amount
        /\ 0 <= monthly_amort[i].bal_main
        /\ monthly_amort[i].bal_main <= main_loan_amount

\* C1 amended: after every simulated month the KfW balance lies between 0
\* and kfw_loan_amount; the main balance is >= 0 and at most the cumulative
\* main-loan draws, which main_loan_amount does not cap.
C1_BalanceRange ==
    /\ bal_kfw >= 0 /\ bal_kfw <= kfw_loan_amount
    /\ bal_main >= 0 /\ bal_main <= SumMainDraw(Len(monthly_amort))
    /\ \A i \in Latest :
        /\ monthly_amort[i].bal_kfw = bal_kfw
        /\ monthly_amort[i].bal_main = bal_main

\* the KfW loan is drawn to its limit and the main loan beyond main_loan_amount
C1_Witness ==
    \E i \in Entries :
        /\ kfw_loan_amount > 0
        /\ monthly_amort[i].bal_kfw = kfw_loan_amount
        /\ monthly_amort[i].bal_main > main_loan_amount
        /\ main_loan_amount > 0

\* ------------------------------------------------------------------ C2
\* C2 as stated: summed over all simulated months, the draws (equity used +
\* KfW draw + main draw) equal total_investment + furnishing_costs.
C2_Original ==
    pc = "done" =>
        SumDraws(Len(monthly_amort)) = total_investment + furnishing_costs

\* C2 amended: the draws of all simulated months sum to the transaction
\* costs + furnishing costs + share x purchase price of every installment
\* whose offset lies inside the simulated horizon; this is
\* total_investment + furnishing_costs when the shares sum to 1 and every
\* installment falls inside the horizon.
C2_TotalDraws ==
    pc = "done" =>
        /\ SumDraws(Len(monthly_amort))
             = total_nbk + furnishing_costs + DueInHorizon(cfg.payment_schedule)
        /\ (ShareSum(cfg.payment_schedule) = 100 /\ AllDueInHorizon)
             => SumDraws(Len(monthly_amort)) = total_investment + furnishing_costs

C2_Witness ==
    /\ pc = "done"
    /\ ShareSum(cfg.payment_schedule) = 100
    /\ AllDueInHorizon
    /\ SumMainDraw(Len(monthly_amort)) > 0

\* ------------------------------------------------------------------ C3
\* C3: the equity pool starts at the configured equity, gives up exactly
\* min(draw, equity remaining) each month, never grows and is never
\* negative; a loan is drawn in a month only if the pool is empty at the end
\* of that month.  Stated of the month just simulated (entry n), in every
\* reachable state, hence of every month.
C3_EquityPool ==
    LET n == Len(monthly_amort)
    IN  /\ equity_rem = Pool(n)
        /\ n = 0 => equity_rem = eigenkapital
        /\ n > 0 =>
            /\ monthly_amort[n].equity_used
                 = Min(ExpectedDraw(n - 1), Pool(n - 1))
            /\ Pool(n) <= Pool(n - 1)
            /\ Pool(n) >= 0
            /\ (monthly_amort[n].kfw_draw > 0 \/ monthly_amort[n].main_draw > 0)
                 => Pool(n) = 0

\* the month just simulated emptied a pool that earlier draws had already
\* reduced, and the rest of its draw was financed
C3_Witness ==
    LET n == Len(monthly_amort)
    IN  /\ n > 1
        /\ Pool(n - 1) > 0
        /\ Pool(n - 1) < eigenkapital
        /\ monthly_amort[n].equity_used > 0
        /\ monthly_amort[n].kfw_draw > 0
        /\ equity_rem = 0

\* ------------------------------------------------------------------ C4
\* C4: every month the financed amount (draw - equity used) is allocated in
\* full: KfW draw = min(financed, KfW limit - KfW balance), main draw = the
\* rest, unbounded; so a main draw > 0 means the KfW balance is at its limit
\* right after that month's draw.
C4_DrawPriority ==
    \A i \in Latest :
        LET financed == ExpectedDraw(i - 1) - monthly_amort[i].equity_used
        IN  /\ monthly_amort[i].kfw_draw
                 = Min(financed, kfw_loan_amount - PrevBalKfw(i))
            /\ monthly_amort[i].main_draw
                 = financed - monthly_amort[i].kfw_draw
            /\ monthly_amort[i].main_draw > 0
                 => PrevBalKfw(i) + monthly_amort[i].kfw_draw = kfw_loan_amount

\* one month's financed amount fills the KfW loan and spills into the main loan
C4_Witness ==
    \E i \in Entries :
        /\ monthly_amort[i].kfw_draw > 0
        /\ monthly_amort[i].main_draw > 0
        /\ PrevBalKfw(i) > 0

\* ------------------------------------------------------------------ C5
\* C5 as stated: for every month at or after rent_start, neither loan's
\* end-of-month balance is larger than at the end of the previous month.
C5_Original ==
    \A i \in Entries :
        (Rental(i) /\ i > 1) =>
            /\ monthly_amort[i].bal_kfw <= PrevBalKfw(i)
            /\ monthly_amort[i].bal_main <= PrevBalMain(i)

\* C5 amended: draws are not confined to construction; for every month at or
\* after rent_start each loan's end-of-month balance is at most its previous
\* end-of-month balance plus that month's draw on that loan, so it does not
\* grow in a rental month without a draw on that loan.
C5_GrowsOnlyByDraws ==
    \A i \in Latest :
        Rental(i) =>
            /\ monthly_amort[i].bal_kfw
                 <= PrevBalKfw(i) + monthly_amort[i].kfw_draw
            /\ monthly_amort[i].bal_main
                 <= PrevBalMain(i) + monthly_amort[i].main_draw
            /\ monthly_amort[i].kfw_draw = 0
                 => monthly_amort[i].bal_kfw <= PrevBalKfw(i)
            /\ monthly_amort[i].main_draw = 0
                 => monthly_amort[i].bal_main <= PrevBalMain(i)

\* a rental month whose draw makes a balance grow, and a tilgung-free rental
\* month without a draw
C5_Witness ==
    /\ \E i \in Entries :
        /\ Rental(i)
        /\ i > 1
        /\ monthly_amort[i].bal_main > PrevBalMain(i)
    /\ \E i \in Entries :
        /\ Rental(i)
        /\ EntryDraw(i) = 0
        /\ monthly_amort[i].bal_kfw > 0
        /\ monthly_amort[i].bal_kfw = PrevBalKfw(i)
        /\ monthly_amort[i].bal_main < PrevBalMain(i)

\* ------------------------------------------------------------------ C6
\* C6: in every month before rent_start both loans are interest-only: each
\* principal payment is 0, each interest is the balance after that month's
\* draw x annual rate / 12, and no balance decreases.
C6_ConstructionInterestOnly ==
    \A i \in Latest :
        ~Rental(i) =>
            /\ monthly_amort[i].principal_kfw = 0
            /\ monthly_amort[i].principal_main = 0
            /\ monthly_amort[i].interest_kfw
                 = ((PrevBalKfw(i) + monthly_amort[i].kfw_draw)
                    * cfg.kfw_interest_rate_pct) \div 1200
            /\ monthly_amort[i].interest_main_drawn
                 = ((PrevBalMain(i) + monthly_amort[i].main_draw)
                    * cfg.main_loan_rate_pct) \div 1200
            /\ monthly_amort[i].bal_kfw >= PrevBalKfw(i)
            /\ monthly_amort[i].bal_main >= PrevBalMain(i)

\* a construction month with a draw on both loans on top of earlier balances:
\* interest is charged on the balances after the draw
C6_Witness ==
    \E i \in Entries :
        /\ ~Rental(i)
        /\ PrevBalKfw(i) > 0
        /\ monthly_amort[i].kfw_draw > 0
        /\ monthly_amort[i].main_draw > 0
        /\ monthly_amort[i].interest_kfw > 0
        /\ monthly_amort[i].interest_main_drawn > 0
        /\ monthly_payment_main > monthly_amort[i].interest_main_drawn

\* ------------------------------------------------------------------ C7
\* C7: the commitment fee of a month is max(0, main_loan_amount - main
\* balance) x bereitstellungszins rate exactly when the month is before
\* rent_start and at least grace_period_months months have elapsed since the
\* contract month; it is 0 in every other month; undrawn KfW capacity never
\* generates a fee.
C7_CommitmentFee ==
    \A i \in Latest :
        monthly_amort[i].provision
          = IF ~Rental(i) /\ (i - 1) >= cfg.grace_period_months
            THEN (Max(0, main_loan_amount
                         - (PrevBalMain(i) + monthly_amort[i].main_draw))
                  * cfg.bereitstellungszins_pct) \div 100
            ELSE 0

\* a fee is charged while KfW capacity is undrawn too; no fee in a
\* construction month inside the grace period nor in a rental month after it,
\* although main capacity is undrawn
C7_Witness ==
    /\ \E i \in Entries :
        /\ monthly_amort[i].provision > 0
        /\ monthly_amort[i].bal_kfw < kfw_loan_amount
    /\ \E i \in Entries :
        /\ ~Rental(i)
        /\ (i - 1) < cfg.grace_period_months
        /\ monthly_amort[i].bal_main < main_loan_amount
        /\ monthly_amort[i].provision = 0
    /\ \E i \in Entries :
        /\ Rental(i)
        /\ (i - 1) >= cfg.grace_period_months
        /\ monthly_amort[i].bal_main < main_loan_amount
        /\ monthly_amort[i].provision = 0

\* ------------------------------------------------------------------ C8
\* months from the contract month to rent_start (negative when rent starts
\* before the contract month)
RentOffset ==
    (rent_start.year - cfg.contract_date.year) * 12
    + (rent_start.month - cfg.contract_date.month)

\* C8: in every month at or after rent_start each loan's interest is balance
\* x annual rate / 12 and its principal payment is min(max(0, fixed annuity
\* payment - interest), balance), except that it is 0 while months since
\* rent_start < that loan's own tilgung-free months; the two periods act
\* independently.
C8_RentalPrincipal ==
    \A i \in Latest :
        Rental(i) =>
            LET since == (i - 1) - RentOffset
                b_kfw == PrevBalKfw(i) + monthly_amort[i].kfw_draw
                b_main == PrevBalMain(i) + monthly_amort[i].main_draw
                i_kfw == (b_kfw * cfg.kfw_interest_rate_pct) \div 1200
                i_main == (b_main * cfg.main_loan_rate_pct) \div 1200
            IN  /\ monthly_amort[i].interest_kfw = i_kfw
                /\ monthly_amort[i].interest_main_drawn = i_main
                /\ monthly_amort[i].principal_kfw
                     = IF since < cfg.kfw_tilgung_free_years * 12 THEN 0
                       ELSE Min(Max(0, monthly_payment_kfw - i_kfw), b_kfw)
                /\ monthly_amort[i].principal_main
                     = IF since < cfg.main_tilgung_free_years * 12 THEN 0
                       ELSE Min(Max(0, monthly_payment_main - i_main), b_main)
                /\ monthly_amort[i].bal_kfw
                     = b_kfw - monthly_amort[i].principal_kfw
                /\ monthly_amort[i].bal_main
                     = b_main - monthly_amort[i].principal_main

\* the KfW loan amortizes while the main loan, with a balance, is still in
\* its tilgung-free period, and the last KfW payment is clamped to the balance
C8_Witness ==
    /\ \E i \in Entries :
        /\ Rental(i)
        /\ monthly_amort[i].principal_kfw > 0
        /\ monthly_amort[i].principal_main = 0
        /\ monthly_amort[i].bal_main > 0
    /\ \E i \in Entries :
        /\ Rental(i)
        /\ monthly_amort[i].principal_kfw > 0
        /\ monthly_amort[i].bal_kfw = 0
        /\ monthly_amort[i].principal_kfw
             < monthly_payment_kfw - monthly_amort[i].interest_kfw

\* ------------------------------------------------------------------ C9
\* the calendar month after d
NextMonth(d) ==
    IF d.month = 12 THEN [year |-> d.year + 1, month |-> 1]
    ELSE [year |-> d.year, month |-> d.month + 1]

\* C9: the schedule has exactly one entry per calendar month from the
\* contract month through December of contract_year + output_years - 1
\* (12 x output_years - (contract_month - 1) entries), consecutive entries
\* one month apart, and the cashflow table has one record per entry with the
\* same dates.
C9_OnePerMonth ==
    /\ \A i \in Latest :
        monthly_amort[i].date
          = IF i = 1
            THEN [year |-> cfg.contract_date.year,
                  month |-> cfg.contract_date.month]
            ELSE NextMonth(monthly_amort[i - 1].date)
    /\ pc \notin {"amort", "error"} =>
        /\ Len(monthly_amort)
             = 12 * cfg.output_years - (cfg.contract_date.month - 1)
        /\ monthly_amort[Len(monthly_amort)].date
             = [year |-> cfg.contract_date.year + cfg.output_years - 1,
                month |-> 12]
    /\ Len(months) <= Len(monthly_amort)
    /\ months # <<>> =>
          months[Len(months)].date = monthly_amort[Len(months)].date
    /\ pc = "done" => Len(months) = Len(monthly_amort)

\* a finished run that starts in October and crosses two year ends
C9_Witness ==
    /\ pc = "done"
    /\ cfg.contract_date.month = 10
    /\ cfg.output_years >= 2
    /\ Len(months) = 12 * cfg.output_years - 9

\* ------------------------------------------------------------------ C10
\* C10: the draw of a month is (transaction costs + furnishing costs, first
\* simulated month only) plus share x purchase price of every installment
\* whose offset equals the month's offset from the contract month;
\* installments with the same offset accumulate, shares are used as entered;
\* any other month has draw 0.
C10_DrawOfMonth ==
    \A i \in Latest : EntryDraw(i) = ExpectedDraw(i - 1)

\* two installments with the same offset whose shares do not sum to 1 are
\* both drawn in their month, and the month before has no draw
C10_Witness ==
    \E i \in Entries :
        /\ i > 2
        /\ Len(cfg.payment_schedule) >= 2
        /\ \A j \in 1..Len(cfg.payment_schedule) :
              cfg.payment_schedule[j].offset = i - 1
        /\ ShareSum(cfg.payment_schedule) # 100
        /\ EntryDraw(i)
             = (total_purchase_price * ShareSum(cfg.payment_schedule)) \div 100
        /\ EntryDraw(i - 1) = 0

\* ------------------------------------------- reading the cashflow table
Records == 1..Len(months)

\* the record of the month just computed; the table only grows by appending
LatestRecord == IF months = <<>> THEN {} ELSE {Len(months)}

\* record i lies before rent_start
BeforeRent(i) == DateLt(months[i].date, rent_start)

\* no loan balance has been drawn by the end of month i
NothingDrawn(i) ==
    monthly_amort[i].bal_kfw = 0 /\ monthly_amort[i].bal_main = 0

\* ------------------------------------------------------------------ C11
\* C11 as stated: in every month strictly before rent_start rent, maintenance
\* and the four depreciation components are 0, and the month's interest is 0
\* as long as no loan balance has been drawn.
C11_Original ==
    \A i \in LatestRecord :
        BeforeRent(i) =>
            /\ months[i].rent = 0
            /\ months[i].maintenance = 0
            /\ months[i].sonder_afa = 0
            /\ months[i].degressive_afa = 0
            /\ months[i].linear_afa = 0
            /\ months[i].dep_furnishing = 0
            /\ (NothingDrawn(i) => months[i].interest = 0)

\* C11 amended: in every month strictly before rent_start rent, maintenance
\* and the four depreciation components are 0; as long as no loan balance has
\* been drawn the interest on both loans is 0 and the month's interest total
\* is exactly the commitment fee of that month.
C11_PreRentalZero ==
    \A i \in LatestRecord :
        BeforeRent(i) =>
            /\ months[i].rent = 0
            /\ months[i].maintenance = 0
            /\ months[i].sonder_afa = 0
            /\ months[i].degressive_afa = 0
            /\ months[i].linear_afa = 0
            /\ months[i].dep_furnishing = 0
            /\ (NothingDrawn(i) =>
                  /\ monthly_amort[i].interest_kfw = 0
                  /\ monthly_amort[i].interest_main_drawn = 0
                  /\ months[i].interest = months[i].provision)

\* a first month paid from equity with no interest at all, a later
\* pre-rental month that still has no balance but carries the commitment fee
\* as interest, and a pre-rental month with a drawn balance and interest
C11_Witness ==
    /\ months # <<>>
    /\ BeforeRent(1)
    /\ EntryDraw(1) > 0
    /\ NothingDrawn(1)
    /\ months[1].interest = 0
    /\ \E i \in Records :
        /\ BeforeRent(i)
        /\ NothingDrawn(i)
        /\ months[i].provision > 0
        /\ months[i].interest = months[i].provision
    /\ \E i \in Records :
        /\ BeforeRent(i)
        /\ ~NothingDrawn(i)
        /\ months[i].interest > months[i].provision

\* ------------------------------------------------------------------ C12
\* calendar years from rent_start's year to the year of record i
YearIndex(i) == months[i].date.year - rent_start.year

\* months from rent_start's month through December
MonthsToDecember == 13 - rent_start.month

\* the Sonder-AfA the rule of C12 gives record i
SonderByRule(i) ==
    IF ~BeforeRent(i) /\ YearIndex(i) < cfg.sonder_afa_years
    THEN IF YearIndex(i) = 0
         THEN annual_sonder \div MonthsToDecember
         ELSE annual_sonder \div 12
    ELSE 0

\* the monthly rule of C12 alone
SonderMonthlyRule == \A i \in LatestRecord : months[i].sonder_afa = SonderByRule(i)

\* C12: Sonder-AfA is non-zero only in rental months with year_index <
\* sonder_years; in the completion year each rental month gets annual_amount
\* / (months from rent_start's month through December), so that the
\* completion year's Sonder-AfA sums to the full annual amount whatever
\* rent_start's month is; in each later active year every month gets
\* annual_amount / 12.
C12_SonderAfa ==
    \A i \in LatestRecord :
        /\ months[i].sonder_afa = SonderByRule(i)
        /\ (months[i].sonder_afa # 0 =>
              ~BeforeRent(i) /\ YearIndex(i) < cfg.sonder_afa_years)
        /\ (/\ months[i].date = Timestamp(rent_start.year, 12)
            /\ cfg.sonder_afa_years >= 1
            => SumOfYear(months, "sonder_afa", rent_start.year, i)
                 = annual_sonder)

\* ------------------------------------------------------------------ C13
\* the depreciation base left after record i, from the table alone
RECURSIVE RemainingAfter(_)
RemainingAfter(i) ==
    IF i = 0 THEN total_afa_value
    ELSE RemainingAfter(i - 1) - months[i].degressive_afa - months[i].linear_afa

\* record i lies in the degressive window
InDegressiveWindow(i) ==
    ~BeforeRent(i) /\ DateLeq(months[i].date, degressive_end_month)

\* C13: the remaining degressive base is total_investment x land_ratio at the
\* start of the first rental month; it never increases from one month to the
\* next and is never negative; in the degressive window each month's
\* degressive AfA is remaining base x degressive rate / 12 and the base is
\* reduced by exactly that amount.
C13_RemainingBase ==
    /\ remaining_deg_value >= 0
    /\ remaining_deg_value = RemainingAfter(Len(months))
    /\ (months = <<>> \/ BeforeRent(Len(months))
          => remaining_deg_value = total_afa_value)
    /\ \A i \in LatestRecord :
          /\ months[i].degressive_afa >= 0
          /\ months[i].linear_afa >= 0
          /\ RemainingAfter(i) <= RemainingAfter(i - 1)
          /\ (InDegressiveWindow(i) =>
                /\ months[i].degressive_afa
                     = (RemainingAfter(i - 1) * cfg.degressive_afa_rate_pct)
                       \div 1200
                /\ remaining_deg_value
                     = RemainingAfter(i - 1) - months[i].degressive_afa)

\* after a pre-rental month, a degressive month whose amount is smaller than
\* the first one's because the base has already been reduced
C13_Witness ==
    \E i, j \in Records :
        /\ BeforeRent(1)
        /\ i < j
        /\ InDegressiveWindow(i)
        /\ InDegressiveWindow(j)
        /\ months[j].degressive_afa > 0
        /\ months[j].degressive_afa < months[i].degressive_afa
        /\ remaining_deg_value > 0
        /\ remaining_deg_value < total_afa_value

\* ------------------------------------------------------------------ C14
\* Sonder + degressive + linear AfA of the first n records
RECURSIVE SumBuildingAfa(_)
SumBuildingAfa(n) ==
    IF n = 0 THEN 0
    ELSE SumBuildingAfa(n - 1) + months[n].sonder_afa
         + months[n].degressive_afa + months[n].linear_afa

RECURSIVE SumSonder(_)
SumSonder(n) ==
    IF n = 0 THEN 0 ELSE SumSonder(n - 1) + months[n].sonder_afa

\* the whole depreciation period, from rent_start to the end of the useful
\* years, lies within the simulated months and the cashflow loop is complete
FullPeriodSimulated ==
    /\ pc \in {"aggregate", "done"}
    /\ DateLeq(start_month, rent_start)
    /\ DateLeq(linear_end_month, last_month)
    /\ cfg.sonder_afa_years <= useful_years

\* degressive and linear AfA alone write the base off completely
DegLinRoundTrip ==
    FullPeriodSimulated =>
        /\ remaining_deg_value = 0
        /\ SumBuildingAfa(Len(months)) = total_afa_value + SumSonder(Len(months))

\* C14: round trip of the depreciation engine: over the full depreciation
\* period the monthly Sonder + degressive + linear amounts (furnishing
\* excluded) sum to the initial depreciation base total_investment x
\* land_ratio.
C14_RoundTrip ==
    FullPeriodSimulated => SumBuildingAfa(Len(months)) = total_afa_value

\* ------------------------------------------------------------------ C15
\* last month of the linear window, capped to the last simulated month
LinearWindowEnd ==
    IF DateLt(last_month, linear_end_month) THEN last_month ELSE linear_end_month

\* record i lies after the degressive window and not after the linear one
InLinearWindow(i) ==
    /\ ~BeforeRent(i)
    /\ DateLt(degressive_end_month, months[i].date)
    /\ DateLeq(months[i].date, LinearWindowEnd)

InFurnishingWindow(i) ==
    /\ MonthsBetween(rent_start, months[i].date) >= 0
    /\ MonthsBetween(rent_start, months[i].date)
         < 12 * cfg.furnishing_depreciation_years

\* calendar year of the last month of the furnishing window
FurnishingLastYear ==
    DateOffset(rent_start, 12 * cfg.furnishing_depreciation_years - 1).year

FurnishingLastMonthNumber ==
    DateOffset(rent_start, 12 * cfg.furnishing_depreciation_years - 1).month

\* C16: furnishing depreciation is non-zero exactly in the furnishing_years x
\* 12 consecutive months starting at rent_start; the monthly amount is
\* annual_furnishing / (months from rent_start's month through December) in
\* rent_start's calendar year, annual_furnishing / (month number of the
\* window's last month) in the window's last calendar year (annual_furnishing
\* / 12 if that year is the final output year), and annual_furnishing / 12 in
\* every year in between.
C16_Furnishing ==
    \A i \in LatestRecord :
        /\ (months[i].dep_furnishing # 0 <=> InFurnishingWindow(i))
        /\ (InFurnishingWindow(i) =>
              months[i].dep_furnishing
                = IF months[i].date.year = rent_start.year
                  THEN yearly_furnishing_depreciation \div MonthsToDecember
                  ELSE IF months[i].date.year = FurnishingLastYear
                  THEN IF FurnishingLastYear = last_output_year
                       THEN yearly_furnishing_depreciation \div 12
                       ELSE yearly_furnishing_depreciation
                            \div FurnishingLastMonthNumber
                  ELSE yearly_furnishing_depreciation \div 12)

\* a window whose last calendar year is not the final output year: its
\* months there get the annual amount over the last month's number, and the
\* rental months after the window get nothing
C16_Witness ==
    \E i, j \in Records :
        /\ i < j
        /\ InFurnishingWindow(i)
        /\ months[i].date.year = FurnishingLastYear
        /\ FurnishingLastYear # rent_start.year
        /\ FurnishingLastYear # last_output_year
        /\ FurnishingLastMonthNumber < 12
        /\ months[i].dep_furnishing
             = yearly_furnishing_depreciation \div FurnishingLastMonthNumber
        /\ months[i].dep_furnishing > yearly_furnishing_depreciation \div 12
        /\ ~InFurnishingWindow(j)
        /\ months[j].dep_furnishing = 0

\* ------------------------------------------------------------------ C17
\* all four depreciation components of record i
TotalDepreciation(i) ==
    months[i].sonder_afa + months[i].degressive_afa + months[i].linear_afa
    + months[i].dep_furnishing

\* C17: for every month taxable_income = rent - total_interest -
\* total_depreciation - maintenance and tax_adjustment = -taxable_income x
\* marginal_tax_rate exactly (here in hundredths of a currency unit);
\* consequently a negative taxable income gives a positive tax adjustment and
\* a positive taxable income a negative one.
C17_TaxAdjustment ==
    \A i \in LatestRecord :
        /\ months[i].gross_income
             = months[i].rent - months[i].interest - TotalDepreciation(i)
               - months[i].maintenance
        /\ months[i].tax_refund
             = (0 - months[i].gross_income) * cfg.tax_rate_pct
        /\ (months[i].gross_income < 0 => months[i].tax_refund > 0)
        /\ (months[i].gross_income > 0 => months[i].tax_refund < 0)

\* one run with a loss month (refund) while depreciation runs and a profit
\* month (tax owed) after it has ended; the loss exists only because of the
\* depreciation
C17_Witness ==
    \E i, j \in Records :
        /\ i < j
        /\ TotalDepreciation(i) > 0
        /\ months[i].gross_income < 0
        /\ months[i].gross_income + TotalDepreciation(i) > 0
        /\ months[i].tax_refund > 0
        /\ months[j].gross_income > 0
        /\ months[j].tax_refund < 0

\* ------------------------------------------------------------------ C18
\* the monthly half of C18: net cashflow = rent - total_interest -
\* bereitstellung - maintenance + tax_adjustment, with no principal term
CashflowMonthlyRule ==
    \A i \in LatestRecord :
        months[i].cashflow
          = 100 * (months[i].rent - months[i].interest - months[i].provision
                   - months[i].maintenance)
            + months[i].tax_refund

\* C18: principal repayment (Tilgung) is excluded from cashflow cost: a
\* month's net cashflow is rent - total_interest - bereitstellung -
\* maintenance + tax_adjustment whatever the month's principal payments, and
\* the yearly cashflow figure is likewise not reduced by the year's principal
\* payments: it is the year's rent - interest - maintenance + tax adjustment.
C18_TilgungExcluded ==
    /\ CashflowMonthlyRule
    /\ \A k \in 1..Len(yearly_cashflow) :
          yearly_cashflow[k].total_cash_flow
            = 100 * (yearly_cashflow[k].rent - yearly_cashflow[k].zinsen
                     - yearly_cashflow[k].maintenance)
              + yearly_cashflow[k].tax_refund

\* ------------------------------------------------------------------ C19
\* the first calendar year that lies wholly in the rental phase
FirstFullRentalYear ==
    IF rent_start.month = 1 THEN rent_start.year ELSE rent_start.year + 1

\* 0 through the end of the first full rental calendar year, one more each
\* January after it
GrowthIndex(i) == Max(0, months[i].date.year - FirstFullRentalYear)

\* C19: rent and maintenance escalate on the same schedule: in every rental
\* month rent = base_rent x (1 + rent_growth)^k and maintenance =
\* base_maintenance x (1 + maintenance_growth)^k with the same k, which is 0
\* through the end of the first full rental calendar year and increases by 1
\* each January after that.
C19_SameEscalation ==
    \A i \in LatestRecord :
        ~BeforeRent(i) =>
            /\ months[i].rent
                 = Compound(rent_total, cfg.rent_growth_rate_pct, GrowthIndex(i))
            /\ months[i].maintenance
                 = Compound(maintenance_total, cfg.maintenance_growth_pct,
                            GrowthIndex(i))

\* ------------------------------------------------------------------ C20
\* index of the last month of the k-th simulated calendar year: the first
\* year runs from the contract month through December
YearLast(k) == (13 - start_month.month) + 12 * (k - 1)

YearFirst(k) == IF k = 1 THEN 1 ELSE YearLast(k - 1) + 1

\* sum of column f over rows lo..hi of seq
RECURSIVE RangeSum(_, _, _, _)
RangeSum(seq, f, lo, hi) ==
    IF hi < lo THEN 0 ELSE RangeSum(seq, f, lo, hi - 1) + seq[hi][f]

\* the k-th row of the yearly cashflow table sums the flows of its year and
\* carries the last month's loan balance
CashflowRowOfYear(k) ==
    LET row == yearly_cashflow[k]
        lo == YearFirst(k)
        hi == YearLast(k)
    IN  /\ row.year = start_year + k - 1
        /\ \A i \in lo..hi : months[i].date.year = row.year
        /\ row.rent = RangeSum(months, "rent", lo, hi)
        /\ row.zinsen = RangeSum(months, "interest", lo, hi)
        /\ row.sonder_afa = RangeSum(months, "sonder_afa", lo, hi)
        /\ row.degressive_afa = RangeSum(months, "degressive_afa", lo, hi)
        /\ row.linear_afa = RangeSum(months, "linear_afa", lo, hi)
        /\ row.dep_furnishing = RangeSum(months, "dep_furnishing", lo, hi)
        /\ row.maintenance = RangeSum(months, "maintenance", lo, hi)
        /\ row.tax_refund = RangeSum(months, "tax_refund", lo, hi)
        /\ row.tilgung = RangeSum(months, "tilgung_kfw", lo, hi)
                         + RangeSum(months, "tilgung_main", lo, hi)
        /\ row.equity_invested = RangeSum(months, "equity_invested", lo, hi)
        /\ row.loan_remaining = months[hi].loan_balance

\* the same for the yearly amortization table
AmortRowOfYear(k) ==
    LET row == amort_rows[k]
        lo == YearFirst(k)
        hi == YearLast(k)
    IN  /\ row.year = start_year + k - 1
        /\ row.kfw_drawn = RangeSum(monthly_amort, "kfw_draw", lo, hi)
        /\ row.main_drawn = RangeSum(monthly_amort, "main_draw", lo, hi)
        /\ row.zinsen_kfw = RangeSum(monthly_amort, "interest_kfw", lo, hi)
        /\ row.tilgung_kfw = RangeSum(monthly_amort, "principal_kfw", lo, hi)
        /\ row.zinsen_main
             = RangeSum(monthly_amort, "interest_main_drawn", lo, hi)
        /\ row.tilgung_main = RangeSum(monthly_amort, "principal_main", lo, hi)
        /\ row.bereitstellung = RangeSum(monthly_amort, "provision", lo, hi)
        /\ row.bal_kfw = monthly_amort[hi].bal_kfw
        /\ row.bal_main = monthly_amort[hi].bal_main

\* C20: the yearly tables have exactly one row per calendar year from the
\* contract year through contract_year + output_years - 1, in increasing
\* year order without gaps; every flow column of a year is the sum of that
\* year's monthly values, and the remaining loan balances of a year are the
\* values of that year's last month.
C20_YearlyTables ==
    pc = "done" =>
        /\ Len(yearly_cashflow) = cfg.output_years
        /\ Len(amort_rows) = cfg.output_years
        /\ \A k \in 1..cfg.output_years :
              CashflowRowOfYear(k) /\ AmortRowOfYear(k)

\* finished tables of a run that starts in October and spans two years: the
\* short first year has draws on both loans, the second year has principal
\* payments, and its remaining balance is the December value, smaller than
\* the sum of the year's month-end balances
C20_Witness ==
    /\ pc = "done"
    /\ cfg.output_years = 2
    /\ start_month.month = 10
    /\ amort_rows[1].kfw_drawn > 0
    /\ amort_rows[1].main_drawn > 0
    /\ amort_rows[1].bal_kfw + amort_rows[1].bal_main > 0
    /\ yearly_cashflow[2].tilgung > 0
    /\ yearly_cashflow[2].rent > 0
    /\ yearly_cashflow[2].loan_remaining > 0
    /\ yearly_cashflow[2].loan_remaining
         < SumOfYear(months, "loan_balance", start_year + 1, Len(months))

\* ------------------------------------------- reading the returns table
ReturnsYears == 1..Len(returns_rows)

\* sum of column f of the monthly table from the first month through the
\* last month of the i-th year
MonthlyTotal(f, i) == RangeSum(months, f, 1, YearLast(i))

\* ------------------------------------------------------------------ C21
\* C21: for every year y of the returns table cumulative_outflow(y) is the
\* running sum over the years <= y of equity contributed + interest paid +
\* maintenance paid, cumulative_inflow(y) the running sum of rent + tax
\* adjustment, net_sale_proceeds(y) = projected_price(y) - year-end
\* outstanding loan balance(y), and profit(y) = net_sale_proceeds(y) +
\* cumulative_inflow(y) - cumulative_outflow(y); principal repayments enter
\* none of the sums.
C21_ReturnsSums ==
    pc = "done" =>
        \A i \in ReturnsYears :
            /\ returns_rows[i].cum_outflow
                 = 100 * (MonthlyTotal("equity_invested", i)
                          + MonthlyTotal("interest", i)
                          + MonthlyTotal("maintenance", i))
            /\ returns_rows[i].cum_inflow
                 = 100 * MonthlyTotal("rent", i) + MonthlyTotal("tax_refund", i)
            /\ returns_rows[i].sale_proceeds
                 = returns_rows[i].price
                   - 100 * months[YearLast(i)].loan_balance
            /\ returns_rows[i].profit
                 = returns_rows[i].sale_proceeds + returns_rows[i].cum_inflow
                   - returns_rows[i].cum_outflow

\* a finished two-year run with principal repaid in both years, outflows and
\* inflows growing from the first row to the second and a loan still
\* outstanding at the first year end
C21_Witness ==
    /\ pc = "done"
    /\ Len(returns_rows) = 2
    /\ yearly_cashflow[1].tilgung > 0
    /\ yearly_cashflow[2].tilgung > 0
    /\ returns_rows[1].cum_outflow > 0
    /\ returns_rows[2].cum_outflow > returns_rows[1].cum_outflow
    /\ returns_rows[2].cum_inflow > returns_rows[1].cum_inflow
    /\ returns_rows[1].sale_proceeds < returns_rows[1].price
    /\ returns_rows[2].profit # returns_rows[1].profit

\* ------------------------------------------------------------------ C22
\* rent + tax - interest - maintenance - equity of the k-th year, from the
\* yearly cashflow table
OperatingNet(k) ==
    100 * (yearly_cashflow[k].rent - yearly_cashflow[k].zinsen
           - yearly_cashflow[k].maintenance
           - yearly_cashflow[k].equity_invested)
    + yearly_cashflow[k].tax_refund

\* C22: the IRR series for selling at the end of the year with index i has
\* exactly i + 1 entries; entry 0 = -equity(0) + rent(0) + tax(0) -
\* interest(0) - maintenance(0); every entry j >= 1 = rent(j) + tax(j) -
\* interest(j) - maintenance(j) - equity(j); net_sale_proceeds(y) is added
\* exactly once, to the last entry only (to entry 0 itself when i = 0);
\* entries of earlier years are the same in every row's series.
C22_IrrSeries ==
    pc = "done" =>
        \A r \in ReturnsYears :
            /\ Len(returns_rows[r].irr_cashflows) = r
            /\ \A k \in 1..r :
                  returns_rows[r].irr_cashflows[k]
                    = OperatingNet(k)
                      + (IF k = r THEN returns_rows[r].sale_proceeds ELSE 0)
            /\ \A q \in ReturnsYears : \A k \in 1..r :
                  k < r /\ k < q =>
                      returns_rows[q].irr_cashflows[k]
                        = returns_rows[r].irr_cashflows[k]

\* a two-year run with equity paid in both years: the second row's series
\* starts with the first year's operating figure alone, which the first row
\* holds with its own sale proceeds on top, and ends with the sale
C22_Witness ==
    /\ pc = "done"
    /\ Len(returns_rows) = 2
    /\ yearly_cashflow[1].equity_invested > 0
    /\ yearly_cashflow[2].equity_invested > 0
    /\ returns_rows[1].sale_proceeds # 0
    /\ returns_rows[2].sale_proceeds # 0
    /\ returns_rows[2].irr_cashflows[1] < 0
    /\ returns_rows[2].irr_cashflows[1]
         = returns_rows[1].irr_cashflows[1] - returns_rows[1].sale_proceeds
    /\ returns_rows[2].irr_cashflows[2] > 0

\* ------------------------------------------------------------------ C23
\* all entries of the series have the same sign (a single entry included)
SameSign(series) ==
    \/ \A k \in 1..Len(series) : series[k] > 0
    \/ \A k \in 1..Len(series) : series[k] < 0

\* the rates a row can show
FiniteRates == { IrrGrid[k].rate : k \in 1..Len(IrrGrid) } \cup {0}

CagrBrackets(t, base, outflow, n) ==
    LET b == base \div 100
        o == outflow \div 100
    IN  /\ t \in (0 - 10)..30
        /\ (t > 0 - 10 => o * Pow(10 + t, n) <= b * Pow(10, n))
        /\ (t = 0 - 10 => o * Pow(0, n) <= b * Pow(10, n)
                            \/ \A u \in (0 - 10)..30 :
                                  o * Pow(10 + u, n) > b * Pow(10, n))
        /\ (t < 30 => o * Pow(11 + t, n) > b * Pow(10, n))

\* C24: ROI(y) = profit(y) / cumulative_outflow(y) (in percent, rounded
\* down), and 0 whenever cumulative_outflow(y) is 0; CAGR(y), computed with
\* n = y - purchase_year + 1, is 0 whenever cumulative_outflow(y) <= 0 or
\* profit(y) + cumulative_outflow(y) <= 0, and otherwise the n-th root of
\* (profit + outflow) / outflow, less one.
C24_RoiCagr ==
    pc = "done" =>
        \A r \in ReturnsYears :
            LET row == returns_rows[r]
                n == row.year - start_year + 1
            IN  /\ (row.cum_outflow = 0 => row.roi = 0)
                /\ (row.cum_outflow > 0 =>
                      /\ row.roi * row.cum_outflow <= 100 * row.profit
                      /\ (row.roi + 1) * row.cum_outflow > 100 * row.profit)
                /\ (row.cum_outflow <= 0 \/ row.profit + row.cum_outflow <= 0
                      => row.cagr = 0)
                /\ (row.cum_outflow > 0 /\ row.profit + row.cum_outflow > 0
                      => \E t \in (0 - 10)..30 :
                            /\ row.cagr = 10 * t
                            /\ CagrBrackets(t, row.profit + row.cum_outflow,
                                            row.cum_outflow, n))

\* a finished run whose first year has no outflow at all (ROI and CAGR 0)
\* and whose second year has an outflow, a ROI and a CAGR other than 0
C24_Witness ==
    /\ pc = "done"
    /\ Len(returns_rows) = 2
    /\ returns_rows[1].cum_outflow = 0
    /\ returns_rows[1].roi = 0
    /\ returns_rows[1].cagr = 0
    /\ returns_rows[2].cum_outflow > 0
    /\ returns_rows[2].roi # 0
    /\ returns_rows[2].cagr # 0

\* a finished run with a year whose outflow is positive but whose profit
\* plus outflow is not, so that the CAGR is 0
C24_WitnessBase ==
    /\ pc = "done"
    /\ \E r \in ReturnsYears :
          /\ returns_rows[r].cum_outflow > 0
          /\ returns_rows[r].profit + returns_rows[r].cum_outflow <= 0
          /\ returns_rows[r].cagr = 0

\* ------------------------------------------------------------------ C25
\* C25: there are no fatal error conditions: for any configuration (a zero
\* loan amount, a zero interest rate, ... included) the run completes and
\* produces the monthly, yearly and returns tables; no run stops at an
\* exception.
C25_NoFatalError == pc # "error"

\* a run without a KfW loan that was stopped by the exception
C25_Stopped ==
    /\ pc = "error"
    /\ kfw_loan_amount = 0
    /\ months = <<>>
    /\ returns_rows = <<>>

C27_FeeOnce ==
    \A i \in LatestRecord :
        months[i].cashflow
          = 100 * (months[i].rent
                   - (monthly_amort[i].interest_kfw
                      + monthly_amort[i].interest_main_drawn)
                   - months[i].provision
                   - months[i].maintenance)
            + months[i].tax_refund

\* what the ledger shows instead: in a month with a commitment fee the net
\* cashflow is lower than that by one more fee
C27_FeeTwice ==
    \A i \in LatestRecord :
        months[i].cashflow
          = 100 * (months[i].rent
                   - (monthly_amort[i].interest_kfw
                      + monthly_amort[i].interest_main_drawn)
                   - 2 * months[i].provision
                   - months[i].maintenance)
            + months[i].tax_refund

\* ------------------------------------------------------------------ C28
\* sum of the KfW draws of the first n months
RECURSIVE SumKfwDraw(_)
SumKfwDraw(n) ==
    IF n = 0 THEN 0 ELSE SumKfwDraw(n - 1) + monthly_amort[n].kfw_draw

\* C28: the KfW loan is not revolving: the sum of all KfW draws over the
\* whole simulation never exceeds kfw_loan_amount, also when an installment
\* falls due after principal repayment of the KfW loan has begun.
C28_NotRevolving == SumKfwDraw(Len(monthly_amort)) <= kfw_loan_amount

\* what holds instead: the balance never exceeds the limit, and the draws
\* exceed it by no more than the principal repaid so far
RECURSIVE SumKfwPrincipal(_)
SumKfwPrincipal(n) ==
    IF n = 0 THEN 0 ELSE SumKfwPrincipal(n - 1) + monthly_amort[n].principal_kfw

C28_DrawsLessRepaid ==
    /\ bal_kfw <= kfw_loan_amount
    /\ SumKfwDraw(Len(monthly_amort)) - SumKfwPrincipal(Len(monthly_amort))
         = bal_kfw

\* ------------------------------------------------------------------ C29
\* the furnishing window, from rent_start through its last month, lies
\* within the simulated months and the cashflow loop is complete
FurnishingWindowSimulated ==
    /\ pc = "aggregate"
    /\ cfg.furnishing_depreciation_years > 0
    /\ DateLeq(start_month, rent_start)
    /\ DateLeq(DateOffset(rent_start, 12 * cfg.furnishing_depreciation_years - 1),
               last_month)

TotalFurnishing == RangeSum(months, "dep_furnishing", 1, Len(months))

\* C29: total furnishing depreciation over its whole window equals
\* furnishing_years x annual furnishing amount for every rent_start month
\* (window inside the simulated horizon), so that it never exceeds
\* furnishing_cost when rate x years = 100%.
C29_FurnishingTotal ==
    FurnishingWindowSimulated =>
        /\ TotalFurnishing
             = cfg.furnishing_depreciation_years * yearly_furnishing_depreciation
        /\ (cfg.furnishing_annual_depreciation_rate_pct
              * cfg.furnishing_depreciation_years = 100
              => TotalFurnishing <= furnishing_costs)

\* the same, for the windows that start in January only
C29_JanuaryTotal ==
    FurnishingWindowSimulated /\ rent_start.month = 1 =>
        TotalFurnishing
          = cfg.furnishing_depreciation_years * yearly_furnishing_depreciation

\* ------------------------------------------------------------------ C30
\* some record lies in the linear window
LinearSimulated == \E j \in Records : InLinearWindow(j)

\* the first simulated record of the linear window
FirstLinear ==
    CHOOSE j \in Records :
        InLinearWindow(j) /\ \A k \in 1..(j - 1) : ~InLinearWindow(k)

\* the base at the start of the simulated linear phase, and the number of
\* months it is spread over
LinearBase == RemainingAfter(FirstLinear - 1)

LinearMonths == MonthsBetween(months[FirstLinear].date, LinearWindowEnd) + 1

\* the part of C30 on the degressive and linear amounts: whenever at least
\* one linear-phase month is simulated, every month of the linear phase
\* receives the same linear AfA amount (the base at the start of the phase
\* over the number of its months, to the rounding of one currency unit, and
\* exactly that when it divides evenly), the remaining base is exactly 0
\* after the last month of the horizon-capped linear window, degressive plus
\* linear amounts alone sum to the initial base, and no degressive or linear
\* AfA occurs afterwards.
C30_LinearLevel ==
    LinearSimulated =>
        /\ \A i \in LatestRecord :
              /\ (InLinearWindow(i) =>
                    /\ months[i].linear_afa >= LinearBase \div LinearMonths
                    /\ months[i].linear_afa
                         <= (LinearBase + LinearMonths - 1) \div LinearMonths)
              /\ (months[i].date = LinearWindowEnd =>
                    /\ remaining_deg_value = 0
                    /\ RangeSum(months, "degressive_afa", 1, i)
                       + RangeSum(months, "linear_afa", 1, i) = total_afa_value)
              /\ (DateLt(LinearWindowEnd, months[i].date) =>
                    /\ months[i].degressive_afa = 0
                    /\ months[i].linear_afa = 0
                    /\ remaining_deg_value = 0)

\* C30: whenever at least one linear-phase month is simulated, every month
\* of the linear phase receives the same linear AfA amount and the remaining
\* depreciation base is exactly 0 after the last month of the
\* (horizon-capped) linear window, so the degressive plus linear amounts
\* alone sum to the initial depreciation base and no depreciation of the
\* building (Sonder, degressive or linear AfA) occurs afterwards.
C30_NoBuildingAfaAfter ==
    /\ C30_LinearLevel
    /\ LinearSimulated =>
          \A i \in LatestRecord :
              DateLt(LinearWindowEnd, months[i].date) =>
                  months[i].sonder_afa + months[i].degressive_afa
                  + months[i].linear_afa = 0

\* a finished cashflow loop with degressive months, a linear phase of level
\* amounts that ends inside the horizon with nothing left of the base, and
\* a month after it without building depreciation
C30_Witness ==
    /\ pc = "aggregate"
    /\ DateLt(linear_end_month, last_month)
    /\ remaining_deg_value = 0
    /\ months[Len(months)].linear_afa = 0
    /\ months[Len(months)].degressive_afa = 0
    /\ \E h, i, j \in Records :
          /\ months[h].degressive_afa > 0
          /\ i < j
          /\ InLinearWindow(i)
          /\ months[j].date = linear_end_month
          /\ months[i].linear_afa > 0
          /\ months[j].linear_afa - months[i].linear_afa \in {0, 1}
          /\ RemainingAfter(j) = 0
====
